---- MODULE Spec2Model ----
(***************************************************************************)
(* Connectivity and transport state machine of the tc-firmware telemetry   *)
(* uplink (tc_network.c) together with the telemetry task (main.c).        *)
(*                                                                         *)
(* Two contexts run concurrently: the event context, which dispatches      *)
(* Wi-Fi, IP and MQTT events to the handlers of tc_network.c, and the      *)
(* main task, which starts the network and then samples and publishes on   *)
(* a fixed cadence.  A handler runs to completion, so each handler is one  *)
(* action; the publish functions are called from the main task and are     *)
(* split at the point between their readiness check and their send, where  *)
(* the event context can run.                                              *)
(***************************************************************************)
EXTENDS Integers, Naturals, Sequences, FiniteSets, TLC

VARIABLES
    variant,            \* CONFIG_TC_MQTT_ENABLED: "mqtt" or "http", fixed at build time
    wifi_status,        \* context.wifi.status
    connect_retries,    \* context.wifi.connect_retries
    sta_ip,             \* context.wifi.sta_ip: "" when cleared, "ip" once written
    timer_created,      \* context.wifi.connect_timer # NULL
    timer_armed,        \* connect_timer is running
    timer_delay,        \* microseconds the running/last one-shot was armed with
    mqtt_state,         \* context.mqtt.state
    client_started,     \* esp_mqtt_client_start has succeeded on context.mqtt.client
    sntp_started,       \* context.sntp_started
    established_cb,     \* context.established_cb: "NULL" or the registered callback
    radio,              \* Wi-Fi driver: "off", "starting", "idle", "trying", "up"
    broker,             \* MQTT library's connection to the broker: "down" or "up"
    pc,                 \* position of the main task (app_main)
    start_result,       \* value returned by the last tc_network_start call
    pub_result,         \* value returned by the last publish call
    handed,             \* messages handed to the underlying client (publish / perform)
    ticks,              \* telemetry ticks begun by the loop
    established_calls,  \* times established_cb has been invoked
    ever_connected,     \* wifi_status has been WIFI_STAT_CONNECTED at some point
    elapsed,            \* seconds since app_main started the network
    op,                 \* the operation that produced the current state
    loop_result,        \* value returned by the last call of loop()
    pub_calls,          \* calls of the publish function made by loop()
    sample,             \* tick in which the sample held in loop()'s payload was taken
    pub_sample,         \* tick of the sample passed to the last publish call
    mac,                \* the 6-byte hardware address esp_efuse_mac_get_default yields
    id_result,          \* value returned by tc_get_device_str
    device_str,         \* app_main's device_str buffer, <<>> while unwritten
    publish_topic,      \* publish_topic, <<>> while unwritten
    lat_q,              \* payload.latitude, in quarters of a degree
    lon_q,              \* payload.longitude, in quarters of a degree
    battery,            \* payload.battery_percentage
    encoded,            \* the 5 bytes of the encoded payload, <<>> before encoding
    payload_text,       \* the "payload" string of the JSON envelope, as characters
    http_open,          \* esp_http_client handles initialised and not yet cleaned up
    xLastWakeTime,      \* app_main's xLastWakeTime, in time units since the loop started
    now                 \* xTaskGetTickCount(), in the same units

vars == <<variant, wifi_status, connect_retries, sta_ip, timer_created, timer_armed,
          timer_delay, mqtt_state, client_started, sntp_started, established_cb,
          radio, broker, pc, start_result, pub_result, handed, ticks,
          established_calls, ever_connected, elapsed, op, loop_result,
          pub_calls, sample, pub_sample, mac, id_result, device_str,
          publish_topic, lat_q, lon_q, battery, encoded, payload_text,
          http_open, xLastWakeTime, now>>

\* The variables of tc_network.c's context and of its environment.
net_vars == <<wifi_status, connect_retries, sta_ip, timer_created, timer_armed,
              timer_delay, mqtt_state, client_started, sntp_started,
              established_cb, radio, broker, start_result, established_calls,
              ever_connected>>

\* The telemetry loop's bookkeeping.
task_vars == <<loop_result, pub_calls, sample, pub_sample>>

\* Device identity, written once at boot.
id_vars == <<mac, id_result, device_str, publish_topic>>

\* The sample and its encoding.
codec_vars == <<lat_q, lon_q, battery, encoded, payload_text>>

\* The loop's wake time and the scheduler's clock.
cadence_vars == <<xLastWakeTime, now>>

(***************************************************************************)
(* Bounds of the model.                                                    *)
(***************************************************************************)
MaxRetries == 3
MaxEstablished == 2
MaxTicks == 2
MaxElapsed == 300
ClockStep == 300
MaxRetryRun == 1080

\* CONFIG_TC_PAYLOAD_GPS_INTERVAL, in the time units of xLastWakeTime.
Interval == 2

(***************************************************************************)
(* Types of tc_network.c.                                                  *)
(***************************************************************************)
wifi_status_t == {"WIFI_STAT_UNINITD", "WIFI_STAT_INITD",
                  "WIFI_STAT_CONNECTING", "WIFI_STAT_CONNECTED"}

mqtt_status_t == {"MQTT_STATE_UNINIT", "MQTT_STATE_INIT", "MQTT_STATE_CONNECTED"}

Variants == {"mqtt", "http"}

\* tc_network_established_cb_t values a caller can pass: no callback, or one.
Callbacks == {"NULL", "cb"}

\* The step of tc_network_start at which a library call fails.  "pre_timer"
\* stands for any VERIFY_SUCCESS before esp_timer_create has succeeded.
FailPoints == {"none", "pre_timer", "set_config", "wifi_start"}

Alive == pc # "abort"

(***************************************************************************)
(* Initial state: the static initialiser of context, and app_main not yet  *)
(* past tc_wifi_start.                                                     *)
(***************************************************************************)
NetInit ==
    /\ wifi_status = "WIFI_STAT_UNINITD"
    /\ connect_retries = 0
    /\ sta_ip = ""
    /\ timer_created = FALSE
    /\ timer_armed = FALSE
    /\ timer_delay = 0
    /\ mqtt_state = "MQTT_STATE_UNINIT"
    /\ client_started = FALSE
    /\ sntp_started = FALSE
    /\ established_cb = "NULL"
    /\ radio = "off"
    /\ broker = "down"
    /\ pc = "boot"
    /\ start_result = "none"
    /\ pub_result = "none"
    /\ handed = 0
    /\ ticks = 0
    /\ established_calls = 0
    /\ ever_connected = FALSE
    /\ elapsed = 0
    /\ op = "init"
    /\ loop_result = "none"
    /\ pub_calls = 0
    /\ sample = 0
    /\ pub_sample = 0
    /\ id_result = "none"
    /\ device_str = <<>>
    /\ publish_topic = <<>>
    /\ encoded = <<>>
    /\ payload_text = <<>>
    /\ http_open = 0
    /\ xLastWakeTime = 0
    /\ now = 0

\* The hardware address of the identity example, 00:11:22:33:44:55.
ExampleMac == <<0, 17, 34, 51, 68, 85>>

\* One build, one device and one sensor reading (13.5 degrees north, 100.5
\* degrees east, 50 percent), inside the ranges tc_hal.c generates.
Init ==
    /\ NetInit
    /\ variant \in Variants
    /\ mac = ExampleMac
    /\ lat_q = 54
    /\ lon_q = 402
    /\ battery = 50

(***************************************************************************)
(* Timer and retry delay.                                                  *)
(***************************************************************************)

\* Variant of __wifi_get_next_connect that doubles the delay per retry.
wifi_get_next_connect_exponential(retries) == (2 ^ retries) * 1000000

\* The value a signed 32-bit int takes for a mathematical value given in
\* units of 128: reduction modulo 2^32 into -2^31 .. 2^31 - 1, in the same
\* units (2^32 = 128 * 33554432, 2^31 = 128 * 16777216).
Int32Wrap128(v) == ((v + 16777216) % 33554432) - 16777216

\* __wifi_get_next_connect: connect_retries * 2 * 1000000 microseconds.  The
\* argument is the value of context.wifi.connect_retries at the call.  The
\* product is computed in int and converted to uint64_t only on return; the
\* value here is the int.  2000000 = 128 * 15625, so the product is taken
\* in units of 128 and reduced to 32 bits: an overflowing signed product is
\* undefined in C, and the 32-bit multiply of the target wraps.
__wifi_get_next_connect(retries) == Int32Wrap128(retries * 15625) * 128

\* Variant of esp_timer_start_once that never arms the timer.
esp_timer_start_once_dropped(delay) == UNCHANGED <<timer_armed, timer_delay>>

\* esp_timer_start_once(context.wifi.connect_timer, delay): arms the one-shot
\* timer; on a timer that is already running it fails and leaves it as it is
\* (the handlers ignore the return value).
esp_timer_start_once(delay) ==
    IF timer_armed
    THEN UNCHANGED <<timer_armed, timer_delay>>
    ELSE /\ timer_armed' = TRUE
         /\ timer_delay' = delay

\* Invocation of context.established_cb, guarded by the NULL test that
\* precedes every call site.
RaiseEstablished ==
    IF established_cb # "NULL"
    THEN established_calls' = established_calls + 1
    ELSE UNCHANGED established_calls

(***************************************************************************)
(* SNTP and MQTT helpers called from the handlers.                         *)
(***************************************************************************)

\* _sntp_start: starts SNTP once and always returns ESP_OK.
_sntp_start == sntp_started' = TRUE

\* _mqtt_init: MQTT_STATE_UNINIT -> MQTT_STATE_INIT unless registering the
\* event handler fails; in any other state it returns ESP_ERR_INVALID_STATE.
_mqtt_init(register_ok) ==
    IF mqtt_state = "MQTT_STATE_UNINIT" /\ register_ok
    THEN mqtt_state' = "MQTT_STATE_INIT"
    ELSE UNCHANGED mqtt_state

\* Variant of _mqtt_connect without the state test.
MqttConnectAllowed_any == TRUE

\* State test of _mqtt_connect: a session-open is attempted only from
\* MQTT_STATE_INIT.
MqttConnectAllowed == mqtt_state = "MQTT_STATE_INIT"

\* _mqtt_connect: esp_mqtt_client_start on the client, which succeeds only
\* on a client that has not been started yet.  It never writes mqtt.state.
_mqtt_connect ==
    IF MqttConnectAllowed
    THEN client_started' = TRUE
    ELSE UNCHANGED client_started

\* Variant of the #if in which the address handler signals establishment in
\* both builds.
GotIpSignalsEstablished_always == TRUE

\* The #if of the IP_EVENT_STA_GOT_IP case: with MQTT enabled the handler
\* opens the session, otherwise it signals establishment itself.
GotIpSignalsEstablished == variant = "http"

(***************************************************************************)
(* tc_network_start.                                                       *)
(***************************************************************************)

\* Variant of the guard that lets a start through until the radio has started.
StartAllowed_until_connecting ==
    wifi_status \in {"WIFI_STAT_UNINITD", "WIFI_STAT_INITD"}

\* The guard at the top of tc_network_start.
StartAllowed == wifi_status = "WIFI_STAT_UNINITD"

\* tc_network_start(cb): fail names the library call that fails (if any),
\* register_ok whether _mqtt_init's handler registration succeeds.
tc_network_start(cb, fail, register_ok) ==
    IF ~StartAllowed
    THEN /\ start_result' = "ESP_ERR_INVALID_STATE"
         /\ UNCHANGED <<wifi_status, established_cb, timer_created, mqtt_state,
                        radio>>
    ELSE /\ established_cb' = cb
         /\ timer_created' = (timer_created \/ fail # "pre_timer")
         /\ IF fail \in {"none", "wifi_start"}
            THEN /\ wifi_status' = "WIFI_STAT_INITD"
                 /\ IF variant = "mqtt"
                    THEN _mqtt_init(register_ok)
                    ELSE UNCHANGED mqtt_state
            ELSE UNCHANGED <<wifi_status, mqtt_state>>
         /\ radio' = IF fail = "none" THEN "starting" ELSE radio
         /\ start_result' = IF fail = "none" THEN "ESP_OK" ELSE "ESP_FAIL"

\* A call of tc_network_start by any caller of the module's API; nothing
\* runs before app_main has passed its first steps.
NetworkStartCall ==
    /\ Alive
    /\ pc # "boot"
    /\ \E cb \in Callbacks, fail \in FailPoints, register_ok \in BOOLEAN :
           tc_network_start(cb, fail, register_ok)
    /\ op' = "tc_network_start"
    /\ UNCHANGED <<task_vars, id_vars, codec_vars, cadence_vars, http_open>>
    /\ UNCHANGED <<variant, connect_retries, sta_ip, timer_armed, timer_delay,
                   client_started, sntp_started, broker, pc, pub_result, handed,
                   ticks, established_calls, ever_connected, elapsed>>

(***************************************************************************)
(* Wi-Fi and IP events: __wifi_event_sta_handler.                          *)
(***************************************************************************)

\* WIFI_EVENT_STA_START, posted once after esp_wifi_start.
WifiEventStaStart ==
    /\ Alive
    /\ radio = "starting"
    /\ radio' = "idle"
    /\ esp_timer_start_once(__wifi_get_next_connect(connect_retries))
    /\ wifi_status' = "WIFI_STAT_CONNECTING"
    /\ op' = "WIFI_EVENT_STA_START"
    /\ UNCHANGED <<task_vars, id_vars, codec_vars, cadence_vars, http_open>>
    /\ UNCHANGED <<variant, connect_retries, sta_ip, timer_created, mqtt_state,
                   client_started, sntp_started, established_cb, broker, pc,
                   start_result, pub_result, handed, ticks, established_calls,
                   ever_connected, elapsed>>

\* __wifi_connect_timer: the one-shot fires and calls esp_wifi_connect.
__wifi_connect_timer ==
    /\ Alive
    /\ timer_armed
    /\ timer_armed' = FALSE
    /\ radio' = IF radio = "idle" THEN "trying" ELSE radio
    /\ op' = "wifi_connect_timer"
    /\ UNCHANGED <<task_vars, id_vars, codec_vars, cadence_vars, http_open>>
    /\ UNCHANGED <<variant, wifi_status, connect_retries, sta_ip, timer_created,
                   timer_delay, mqtt_state, client_started, sntp_started,
                   established_cb, broker, pc, start_result, pub_result, handed,
                   ticks, established_calls, ever_connected, elapsed>>

\* Variant of the disconnect handler's status write that falls back to the
\* initialised state.
StatusAfterDisconnect_initd == "WIFI_STAT_INITD"

\* The disconnect handler's write to context.wifi.status.
StatusAfterDisconnect == "WIFI_STAT_CONNECTING"

\* The WIFI_EVENT_STA_DISCONNECTED case of the handler, explored while
\* connect_retries is below limit.
StaDisconnected(limit) ==
    /\ Alive
    /\ radio \in {"trying", "up"}
    /\ connect_retries < limit
    /\ radio' = "idle"
    /\ sta_ip' = ""
    /\ connect_retries' = connect_retries + 1
    /\ esp_timer_start_once(__wifi_get_next_connect(connect_retries'))
    /\ wifi_status' = StatusAfterDisconnect
    /\ op' = "WIFI_EVENT_STA_DISCONNECTED"
    /\ UNCHANGED <<task_vars, id_vars, codec_vars, cadence_vars, http_open>>
    /\ UNCHANGED <<variant, timer_created, mqtt_state, client_started,
                   sntp_started, established_cb, broker, pc, start_result,
                   pub_result, handed, ticks, established_calls, ever_connected,
                   elapsed>>

\* WIFI_EVENT_STA_DISCONNECTED: a connect attempt failed, or the link of a
\* connected station was lost.
WifiEventStaDisconnected == StaDisconnected(MaxRetries)

\* Variant of the address handler's counter update that keeps the count.
RetriesAfterGotIp_kept == connect_retries

\* The address handler's write to context.wifi.connect_retries.
RetriesAfterGotIp == 0

\* IP_EVENT_STA_GOT_IP: address acquired after association, or acquired anew
\* while connected.
IpEventStaGotIp ==
    /\ Alive
    /\ radio \in {"trying", "up"}
    /\ (GotIpSignalsEstablished /\ established_cb # "NULL")
           => established_calls < MaxEstablished
    /\ radio' = "up"
    /\ sta_ip' = "ip"
    /\ connect_retries' = RetriesAfterGotIp
    /\ wifi_status' = "WIFI_STAT_CONNECTED"
    /\ ever_connected' = TRUE
    /\ _sntp_start
    /\ IF variant = "mqtt" THEN _mqtt_connect ELSE UNCHANGED client_started
    /\ IF GotIpSignalsEstablished
       THEN RaiseEstablished
       ELSE UNCHANGED established_calls
    /\ op' = "IP_EVENT_STA_GOT_IP"
    /\ UNCHANGED <<task_vars, id_vars, codec_vars, cadence_vars, http_open>>
    /\ UNCHANGED <<variant, timer_created, timer_armed, timer_delay, mqtt_state,
                   established_cb, broker, pc, start_result, pub_result, handed,
                   ticks, elapsed>>

(***************************************************************************)
(* MQTT events: mqtt_event_handler.                                        *)
(***************************************************************************)

\* MQTT_EVENT_CONNECTED: the started client has connected to the broker.
MqttEventConnected ==
    /\ Alive
    /\ variant = "mqtt"
    /\ client_started
    /\ broker = "down"
    /\ radio = "up"
    /\ established_cb # "NULL" => established_calls < MaxEstablished
    /\ broker' = "up"
    /\ mqtt_state' = "MQTT_STATE_CONNECTED"
    /\ RaiseEstablished
    /\ op' = "MQTT_EVENT_CONNECTED"
    /\ UNCHANGED <<task_vars, id_vars, codec_vars, cadence_vars, http_open>>
    /\ UNCHANGED <<variant, wifi_status, connect_retries, sta_ip, timer_created,
                   timer_armed, timer_delay, client_started, sntp_started,
                   established_cb, radio, pc, start_result, pub_result, handed,
                   ticks, ever_connected, elapsed>>

\* MQTT_EVENT_DISCONNECTED: the client lost the broker or a connect attempt
\* of the started client failed.
MqttEventDisconnected ==
    /\ Alive
    /\ variant = "mqtt"
    /\ client_started
    /\ broker' = "down"
    /\ mqtt_state' = "MQTT_STATE_INIT"
    /\ op' = "MQTT_EVENT_DISCONNECTED"
    /\ UNCHANGED <<task_vars, id_vars, codec_vars, cadence_vars, http_open>>
    /\ UNCHANGED <<variant, wifi_status, connect_retries, sta_ip, timer_created,
                   timer_armed, timer_delay, client_started, sntp_started,
                   established_cb, radio, pc, start_result, pub_result, handed,
                   ticks, established_calls, ever_connected, elapsed>>

\* Every other MQTT event (subscribed, unsubscribed, published, data, error,
\* default): logged only.
MqttEventOther ==
    /\ Alive
    /\ variant = "mqtt"
    /\ client_started
    /\ op' = "MQTT_EVENT_OTHER"
    /\ UNCHANGED <<task_vars, id_vars, codec_vars, cadence_vars, http_open>>
    /\ UNCHANGED <<variant, wifi_status, connect_retries, sta_ip, timer_created,
                   timer_armed, timer_delay, mqtt_state, client_started,
                   sntp_started, established_cb, radio, broker, pc, start_result,
                   pub_result, handed, ticks, established_calls, ever_connected,
                   elapsed>>

(***************************************************************************)
(* Text, as sequences of characters.                                       *)
(***************************************************************************)

HexDigits == <<"0", "1", "2", "3", "4", "5", "6", "7",
               "8", "9", "A", "B", "C", "D", "E", "F">>

\* The digit of weight 16^place in the upper-case hexadecimal form of value.
HexDigitAt(value, place) == HexDigits[((value \div (16 ^ place)) % 16) + 1]

\* printf's %0<width>llX of a value below 16^width.
FormatHex(value, width) == [i \in 1..width |-> HexDigitAt(value, width - i)]

(***************************************************************************)
(* Device identity: tc_get_device_str (tc_hal.c).                          *)
(***************************************************************************)

\* Outcomes of esp_efuse_mac_get_default.
MacReadResults == {"ESP_OK", "ESP_FAIL"}

\* Variant of the loop that shifts byte i by i * 8 instead of (5 - i) * 8.
DeviceIdLow24_reversed(m) == m[3] * 65536 + m[2] * 256 + m[1]

\* device_id & 0xFFFFFF: the loop puts mac[i] at bit (5 - i) * 8, so the low
\* 24 bits hold mac[3], mac[4], mac[5] (C indices) from high to low.
DeviceIdLow24(m) == m[4] * 65536 + m[5] * 256 + m[6]

\* sprintf(device_str, "ESP32_%06llX", device_id & 0xFFFFFF).
tc_get_device_str(m) ==
    <<"E", "S", "P", "3", "2", "_">> \o FormatHex(DeviceIdLow24(m), 6)

\* snprintf(publish_topic, 64, "tc-bn/telemetry/%s", device_str).
PublishTopic(id) == <<"tc-bn/telemetry/">> \o id

(***************************************************************************)
(* Payload codec: _encode_payload and _create_json_payload (main.c).       *)
(* Coordinates are held in quarters of a degree: such floats and their      *)
(* products with 100 are exact, so the arithmetic below is the float        *)
(* arithmetic of the code.                                                  *)
(***************************************************************************)

\* Truncation toward zero of a value given in quarters.
TruncQuarter(q) == IF q >= 0 THEN q \div 4 ELSE -((-q) \div 4)

\* (uint8_t) of a float whose integral part is v: v itself when it fits, and
\* otherwise undefined; the outcomes kept are saturation to 0 and wrap-around.
FloatToUint8(v) == IF v \in 0..255 THEN {v} ELSE {0, v % 256}

\* The integral and fractional bytes of one coordinate:
\* (uint8_t)x and (uint8_t)((x - integral) * 100).
CoordinateBytes(q) ==
    UNION { { <<i, f>> : f \in FloatToUint8((q - 4 * i) * 25) } :
            i \in FloatToUint8(TruncQuarter(q)) }

\* _encode_payload: the set of 5-byte records it can return, most significant
\* byte first: latitude integral, latitude fractional, longitude integral,
\* longitude fractional, battery.
_encode_payload(lat, lon, bat) ==
    { <<la[1], la[2], lo[1], lo[2], bat % 256>> :
          la \in CoordinateBytes(lat), lo \in CoordinateBytes(lon) }

\* sprintf(buffer, "%010llX", encoded_payload): two digits per byte.
PayloadHex(bytes) ==
    FormatHex(bytes[1], 2) \o FormatHex(bytes[2], 2) \o FormatHex(bytes[3], 2)
        \o FormatHex(bytes[4], 2) \o FormatHex(bytes[5], 2)

\* _create_json_payload: encodes the sample and renders the payload field.
_create_json_payload ==
    \E bytes \in _encode_payload(lat_q, lon_q, battery) :
        /\ encoded' = bytes
        /\ payload_text' = PayloadHex(bytes)

\* The decoding the firmware's README documents for the payload's first
\* four bytes: lat_u16 / 65535 * 180 - 90 and lon_u16 / 65535 * 360 - 180.
\* LatErrorScaled is |decoded latitude - latitude| * 4 * 65535 and
\* LonErrorScaled is |decoded longitude - longitude| * 4 * 65535.
Abs(x) == IF x < 0 THEN -x ELSE x
LatErrorScaled(bytes, lat) ==
    Abs(720 * (bytes[1] * 256 + bytes[2]) - 65535 * (360 + lat))
LonErrorScaled(bytes, lon) ==
    Abs(1440 * (bytes[3] * 256 + bytes[4]) - 65535 * (720 + lon))

(***************************************************************************)
(* Publish functions, called from the main task.                           *)
(***************************************************************************)

\* Outcomes of the HTTP client calls of tc_http_publish_telemetry.
HttpOutcomes == {"ok", "set_post_field_fails", "perform_fails", "cleanup_fails"}

\* Outcomes of esp_mqtt_client_publish: a message id, or -1.
MqttOutcomes == {"ok", "mqtt_publish_fails"}

\* Variant of the MQTT publish that returns the failure of the library call.
MqttPublishResult_checked(outcome) ==
    IF outcome = "ok" THEN "ESP_OK" ELSE "ESP_FAIL"

\* tc_mqtt_publish_telemetry past its state test: the value of
\* esp_mqtt_client_publish is discarded and ESP_OK returned.
MqttPublishResult(outcome) == "ESP_OK"

\* tc_http_publish_telemetry past its state test: VERIFY_SUCCESS returns the
\* error of set_post_field or perform, and otherwise the function returns
\* what esp_http_client_cleanup returns.
HttpPublishResult(outcome) == IF outcome = "ok" THEN "ESP_OK" ELSE "ESP_FAIL"

\* Variant of the HTTP publish that cleans the handle up on every path.
HttpHandlesAfter_cleaned(outcome) == http_open

\* Handles open after tc_http_publish_telemetry: esp_http_client_init opens
\* one, and only the path through esp_http_client_cleanup closes it; the
\* returns of VERIFY_SUCCESS leave it open.
HttpHandlesAfter(outcome) ==
    IF outcome \in {"set_post_field_fails", "perform_fails"}
    THEN http_open + 1
    ELSE http_open

\* Variant of the publish functions in which a publish resets the session
\* state.
PublishLeavesContext_resets ==
    /\ mqtt_state' = IF mqtt_state = "MQTT_STATE_UNINIT"
                     THEN mqtt_state ELSE "MQTT_STATE_INIT"
    /\ UNCHANGED <<wifi_status, connect_retries>>

\* Neither publish function, nor loop(), writes a field of context.
PublishLeavesContext == UNCHANGED <<wifi_status, mqtt_state, connect_retries>>

\* Variant of the HTTP readiness test that also accepts a link that is
\* still associating.
HttpPublishReady_associating ==
    wifi_status \in {"WIFI_STAT_CONNECTING", "WIFI_STAT_CONNECTED"}

\* Variant of the readiness test that accepts any initialised client.
MqttPublishReady_initialised == mqtt_state # "MQTT_STATE_UNINIT"

\* Readiness test of tc_mqtt_publish_telemetry.
MqttPublishReady == mqtt_state = "MQTT_STATE_CONNECTED"

\* Readiness test of tc_http_publish_telemetry.
HttpPublishReady == wifi_status = "WIFI_STAT_CONNECTED"

PublishReady == IF variant = "mqtt" THEN MqttPublishReady ELSE HttpPublishReady

\* loop()'s call of the publish function and the first half of that
\* function: the state test and, when it fails, the return of
\* ESP_ERR_INVALID_STATE, which loop() discards before it returns ESP_OK.
PublishCheck ==
    /\ pc = "publish_check"
    /\ IF PublishReady
       THEN /\ pc' = "publish_send"
            /\ UNCHANGED <<pub_result, loop_result>>
       ELSE /\ pc' = "delay"
            /\ pub_result' = "ESP_ERR_INVALID_STATE"
            /\ loop_result' = "ESP_OK"
    /\ pub_calls' = pub_calls + 1
    /\ pub_sample' = sample
    /\ op' = "publish_check"
    /\ PublishLeavesContext
    /\ UNCHANGED <<sample, id_vars, codec_vars, cadence_vars, http_open>>
    /\ UNCHANGED <<variant, sta_ip, timer_created, timer_armed, timer_delay,
                   client_started, sntp_started, established_cb, radio, broker,
                   start_result, handed, ticks, established_calls,
                   ever_connected, elapsed>>

\* Second half of the publish function: esp_mqtt_client_publish, whose
\* result is discarded, or the HTTP request, where VERIFY_SUCCESS returns the
\* error of the call that failed.  loop() discards the result and returns
\* ESP_OK.
PublishSend ==
    /\ pc = "publish_send"
    /\ IF variant = "mqtt"
       THEN \E outcome \in MqttOutcomes :
                /\ handed' = handed + 1
                /\ pub_result' = MqttPublishResult(outcome)
                /\ op' = IF outcome = "ok" THEN "publish_send" ELSE outcome
                /\ UNCHANGED http_open
       ELSE \E outcome \in HttpOutcomes :
                /\ handed' = IF outcome = "set_post_field_fails"
                             THEN handed ELSE handed + 1
                /\ pub_result' = HttpPublishResult(outcome)
                /\ http_open' = HttpHandlesAfter(outcome)
                /\ op' = IF outcome = "ok" THEN "publish_send" ELSE outcome
    /\ pc' = "delay"
    /\ loop_result' = "ESP_OK"
    /\ PublishLeavesContext
    /\ UNCHANGED <<pub_calls, sample, pub_sample, id_vars, codec_vars,
                   cadence_vars>>
    /\ UNCHANGED <<variant, sta_ip, timer_created, timer_armed, timer_delay,
                   client_started, sntp_started, established_cb, radio, broker,
                   start_result, ticks, established_calls, ever_connected,
                   elapsed>>

(***************************************************************************)
(* Main task: app_main and loop.                                           *)
(***************************************************************************)

\* Variant of app_main that goes on after a failed identity read.
AfterIdentity_unchecked(result) == "start"

\* ESP_ERROR_CHECK on tc_get_device_str: abort unless it returned ESP_OK.
AfterIdentity(result) == IF result = "ESP_OK" THEN "start" ELSE "abort"

\* app_main's first steps: tc_get_device_str, which returns the error of a
\* failed address read before writing anything, and the topic built from
\* the ID.
AppMainIdentity ==
    /\ pc = "boot"
    /\ \E result \in MacReadResults :
           /\ id_result' = result
           /\ device_str' = IF result = "ESP_OK"
                            THEN tc_get_device_str(mac) ELSE device_str
           /\ pc' = AfterIdentity(result)
    /\ publish_topic' = IF pc' = "abort"
                        THEN publish_topic ELSE PublishTopic(device_str')
    /\ op' = "identity"
    /\ UNCHANGED <<variant, net_vars, pub_result, handed, ticks, elapsed, mac,
                   task_vars, codec_vars, cadence_vars, http_open>>

\* app_main up to the loop: ESP_ERROR_CHECK(tc_wifi_start()) aborts on any
\* error; on success the task goes straight on to the while (true) loop.
\* tc_wifi_start is the name tc_network.h gives the start function that
\* tc_network.c defines as tc_network_start; the call names no callback, so
\* the callback the start registers is left open here.
AppMainStart ==
    /\ pc = "start"
    /\ \E cb \in Callbacks, fail \in FailPoints, register_ok \in BOOLEAN :
           tc_network_start(cb, fail, register_ok)
    /\ pc' = IF start_result' = "ESP_OK" THEN "loop" ELSE "abort"
    /\ xLastWakeTime' = now
    /\ op' = "app_main"
    /\ UNCHANGED <<task_vars, id_vars, codec_vars, now, http_open>>
    /\ UNCHANGED <<variant, connect_retries, sta_ip, timer_armed, timer_delay,
                   client_started, sntp_started, broker, pub_result, handed,
                   ticks, established_calls, ever_connected, elapsed>>

\* Outcomes of the two sensor reads of loop().
SensorOutcomes == {"ok", "gps_fails", "battery_fails"}

\* Variant of loop() that goes on to publish whatever the sensors returned.
AfterSensors_unchecked(sensor) == "publish_check"

\* VERIFY_SUCCESS on the sensor reads: loop() returns the error of a failed
\* read at once, and otherwise goes on to build and publish the envelope.
AfterSensors(sensor) == IF sensor = "ok" THEN "publish_check" ELSE "delay"

\* Time units one iteration's sampling and publishing can take: less than
\* one interval.
LoopLatencies == 0..(Interval - 1)

\* loop() up to its publish call: both sensor reads, the timestamp and the
\* JSON envelope.  The time the whole iteration takes is counted here.
LoopSample ==
    /\ pc = "loop"
    /\ ticks < MaxTicks
    /\ ticks' = ticks + 1
    /\ \E latency \in LoopLatencies : now' = now + latency
    /\ \E sensor \in SensorOutcomes :
           /\ pc' = AfterSensors(sensor)
           /\ IF sensor = "ok"
              THEN /\ sample' = ticks'
                   /\ _create_json_payload
                   /\ UNCHANGED loop_result
              ELSE /\ loop_result' = "ESP_FAIL"
                   /\ UNCHANGED <<sample, encoded, payload_text>>
           /\ op' = IF sensor = "ok" THEN "loop" ELSE sensor
    /\ PublishLeavesContext
    /\ UNCHANGED <<variant, sta_ip, timer_created, timer_armed, timer_delay,
                   client_started, sntp_started, established_cb, radio, broker,
                   start_result, established_calls, ever_connected, pub_result,
                   handed, elapsed, pub_calls, pub_sample, id_vars, lat_q, lon_q,
                   battery, xLastWakeTime, http_open>>

\* Variant of the driver that goes back to the publish call after a publish
\* that did not succeed.
AfterDelay_retry == IF pub_result # "ESP_OK" THEN "publish_check" ELSE "loop"

\* The while (true) of app_main: the next iteration calls loop() afresh.
AfterDelay == "loop"

\* Variant of the delay that counts the interval from the current time, as
\* vTaskDelay would.
NextWakeTime_relative == now + Interval

\* vTaskDelayUntil(&xLastWakeTime, interval): the wake time is the previous
\* wake time plus the interval.
NextWakeTime == xLastWakeTime + Interval

\* vTaskDelayUntil at the end of an iteration of the while (true) loop: it
\* stores the new wake time and returns when the clock has reached it, at
\* once if it already has.
DelayUntil ==
    /\ pc = "delay"
    /\ pc' = AfterDelay
    /\ xLastWakeTime' = NextWakeTime
    /\ now' = IF now > xLastWakeTime' THEN now ELSE xLastWakeTime'
    /\ op' = "delay_until"
    /\ UNCHANGED <<task_vars, id_vars, codec_vars, http_open>>
    /\ UNCHANGED <<variant, wifi_status, connect_retries, sta_ip, timer_created,
                   timer_armed, timer_delay, mqtt_state, client_started,
                   sntp_started, established_cb, radio, broker, start_result,
                   pub_result, handed, ticks, established_calls, ever_connected,
                   elapsed>>

\* Passage of time after app_main has started the network.
ClockTick ==
    /\ pc \notin {"boot", "start", "abort"}
    /\ elapsed < MaxElapsed
    /\ elapsed' = elapsed + ClockStep
    /\ op' = "clock"
    /\ UNCHANGED <<task_vars, id_vars, codec_vars, cadence_vars, http_open>>
    /\ UNCHANGED <<variant, wifi_status, connect_retries, sta_ip, timer_created,
                   timer_armed, timer_delay, mqtt_state, client_started,
                   sntp_started, established_cb, radio, broker, pc, start_result,
                   pub_result, handed, ticks, established_calls, ever_connected>>

(***************************************************************************)
(* Specification.                                                          *)
(***************************************************************************)
Next ==
    \/ NetworkStartCall
    \/ WifiEventStaStart
    \/ __wifi_connect_timer
    \/ WifiEventStaDisconnected
    \/ IpEventStaGotIp
    \/ MqttEventConnected
    \/ MqttEventDisconnected
    \/ MqttEventOther
    \/ AppMainIdentity
    \/ AppMainStart
    \/ LoopSample
    \/ PublishCheck
    \/ PublishSend
    \/ DelayUntil
    \/ ClockTick

Spec == Init /\ [][Next]_vars

(***************************************************************************)
(* The codec and the identity derivation on their own, over more inputs.   *)
(***************************************************************************)

\* Latitudes (-90, -13.5, -0.5, 0, 13.5, 90) and longitudes (-180, -100.5, 0,
\* 100.5, 180) in quarters of a degree, and battery percentages.
LatSamples == {-360, -54, -2, 0, 54, 360}
LonSamples == {-720, -402, 0, 402, 720}
BatterySamples == {0, 50, 100}

CodecInit ==
    /\ NetInit
    /\ variant = "mqtt"
    /\ mac = ExampleMac
    /\ lat_q \in LatSamples
    /\ lon_q \in LonSamples
    /\ battery \in BatterySamples

\* One call of _create_json_payload on the sample.
CreateJsonPayload ==
    /\ encoded = <<>>
    /\ _create_json_payload
    /\ op' = "create_json_payload"
    /\ UNCHANGED <<variant, net_vars, pc, pub_result, handed, ticks, elapsed,
                   task_vars, id_vars, lat_q, lon_q, battery, cadence_vars,
                   http_open>>

CodecNext == CreateJsonPayload

CodecSpec == CodecInit /\ [][CodecNext]_vars

\* Hardware addresses: every combination of three byte values, and the
\* example address.
MacByteSamples == {0, 10, 255}
IdentityMacs == [1..6 -> MacByteSamples] \cup {ExampleMac}

IdentityInit ==
    /\ NetInit
    /\ variant = "mqtt"
    /\ mac \in IdentityMacs
    /\ lat_q = 54
    /\ lon_q = 402
    /\ battery = 50

IdentityNext == AppMainIdentity

IdentitySpec == IdentityInit /\ [][IdentityNext]_vars

(***************************************************************************)
(* The retry delay over a long run of association failures.                *)
(***************************************************************************)

\* The state after app_main has started the network, the radio has started
\* and the timer has made the first connect attempt.
RetryInit ==
    /\ variant \in Variants
    /\ wifi_status = "WIFI_STAT_CONNECTING"
    /\ connect_retries = 0
    /\ sta_ip = ""
    /\ timer_created = TRUE
    /\ timer_armed = FALSE
    /\ timer_delay = 0
    /\ mqtt_state = IF variant = "mqtt" THEN "MQTT_STATE_INIT" ELSE "MQTT_STATE_UNINIT"
    /\ client_started = FALSE
    /\ sntp_started = FALSE
    /\ established_cb = "NULL"
    /\ radio = "trying"
    /\ broker = "down"
    /\ pc = "loop"
    /\ start_result = "ESP_OK"
    /\ pub_result = "none"
    /\ handed = 0
    /\ ticks = 0
    /\ established_calls = 0
    /\ ever_connected = FALSE
    /\ elapsed = 0
    /\ op = "wifi_connect_timer"
    /\ loop_result = "none"
    /\ pub_calls = 0
    /\ sample = 0
    /\ pub_sample = 0
    /\ mac = ExampleMac
    /\ id_result = "ESP_OK"
    /\ device_str = tc_get_device_str(mac)
    /\ publish_topic = PublishTopic(device_str)
    /\ lat_q = 54
    /\ lon_q = 402
    /\ battery = 50
    /\ encoded = <<>>
    /\ payload_text = <<>>
    /\ http_open = 0
    /\ xLastWakeTime = 0
    /\ now = 0

\* An association failure, for as long a run of failures as MaxRetryRun.
WifiEventStaDisconnectedRun == StaDisconnected(MaxRetryRun)

RetryNext ==
    \/ WifiEventStaDisconnectedRun
    \/ __wifi_connect_timer

RetrySpec == RetryInit /\ [][RetryNext]_vars

\* The esp_timer service runs the callback of an armed one-shot timer: an
\* armed connect timer eventually fires.
FairSpec == Spec /\ WF_vars(__wifi_connect_timer)

TypeOK ==
    /\ variant \in Variants
    /\ wifi_status \in wifi_status_t
    /\ mqtt_state \in mqtt_status_t
    /\ connect_retries \in 0..MaxRetries
    /\ established_calls \in 0..MaxEstablished
    /\ handed \in 0..MaxTicks
    /\ ticks \in 0..MaxTicks

(***************************************************************************)
(* Properties.                                                             *)
(***************************************************************************)

\* The startup-establishment timeout of the EstablishmentGate, in seconds.
StartupWaitSeconds == 300

\* The main task takes its publish-check step.
PublishCheckStep == pc = "publish_check" /\ pc' # "publish_check"

\* C1: in the MQTT build, a publish called while mqtt.state is not
\* MQTT_STATE_CONNECTED returns ESP_ERR_INVALID_STATE, never reaches the
\* client's publish (the tick goes on to its delay, nothing is handed over or
\* kept), and leaves wifi.status, mqtt.state and connect_retries unchanged.
C1_NotReadyPublishRejected ==
    [][(PublishCheckStep /\ variant = "mqtt"
            /\ mqtt_state # "MQTT_STATE_CONNECTED")
         => /\ pub_result' = "ESP_ERR_INVALID_STATE"
            /\ pc' = "delay"
            /\ handed' = handed
            /\ UNCHANGED <<wifi_status, mqtt_state, connect_retries>>]_vars

\* C1 witness: after the session had been active and was lost, a publish was
\* rejected.
C1_Witness ==
    /\ variant = "mqtt"
    /\ op = "publish_check"
    /\ pc = "delay"
    /\ pub_result = "ESP_ERR_INVALID_STATE"
    /\ established_calls > 0
    /\ mqtt_state = "MQTT_STATE_INIT"

\* C2: in the MQTT build, when the Wi-Fi disconnect event is handled while
\* wifi.status is WIFI_STAT_CONNECTED, mqtt.state is MQTT_STATE_INIT once the
\* handler has completed.
C2_LinkDisconnectResetsSession ==
    [][(variant = "mqtt" /\ wifi_status = "WIFI_STAT_CONNECTED"
            /\ op' = "WIFI_EVENT_STA_DISCONNECTED")
         => mqtt_state' = "MQTT_STATE_INIT"]_vars

\* C3: once the link has been established, a publish attempted while the
\* link is not connected is rejected and changes no state; and the handler
\* that completes a reconnect leaves a state that accepts publishes.
C3_RejectedWhileDownAcceptedAfter ==
    [][/\ (PublishCheckStep /\ ever_connected
               /\ wifi_status # "WIFI_STAT_CONNECTED")
            => /\ pub_result' = "ESP_ERR_INVALID_STATE"
               /\ pc' = "delay"
               /\ handed' = handed
               /\ UNCHANGED <<wifi_status, mqtt_state, connect_retries>>
       /\ (variant = "http" /\ op' = "IP_EVENT_STA_GOT_IP") => PublishReady'
       /\ (variant = "mqtt" /\ op' = "MQTT_EVENT_CONNECTED") => PublishReady'
      ]_vars

\* C4: established_cb is invoked at most once in a process lifetime.
C4_EstablishedRaisedOnce == established_calls <= 1

\* C5: established_cb is invoked only by a handler that leaves a state in
\* which publish is accepted: the address handler in the HTTP build (which
\* sets WIFI_STAT_CONNECTED), the MQTT connected handler in the MQTT build
\* (which sets MQTT_STATE_CONNECTED); and never before wifi.status has been
\* WIFI_STAT_CONNECTED.
C5_EstablishedOnlyWhenPublishable ==
    [][established_calls' # established_calls
         => /\ PublishReady'
            /\ ever_connected'
            /\ variant = "http"
                 => /\ op' = "IP_EVENT_STA_GOT_IP"
                    /\ wifi_status' = "WIFI_STAT_CONNECTED"
            /\ variant = "mqtt"
                 => /\ op' = "MQTT_EVENT_CONNECTED"
                    /\ mqtt_state' = "MQTT_STATE_CONNECTED"
                    /\ ever_connected]_vars

\* C5 witness: the MQTT connected handler has just raised the notification.
C5_Witness ==
    /\ variant = "mqtt"
    /\ op = "MQTT_EVENT_CONNECTED"
    /\ established_calls = 1
    /\ mqtt_state = "MQTT_STATE_CONNECTED"

\* C6: no tick of the telemetry loop begins before established_cb has been
\* invoked.
C6_NoTickBeforeEstablished == ticks > 0 => established_calls > 0

\* C7: when the startup wait has run out without a notification, the main
\* task is on the restart path and has not entered the loop; and it is on the
\* restart path only then.
C7_TimeoutRestartsWithoutLoop ==
    /\ (elapsed >= StartupWaitSeconds /\ established_calls = 0)
           => (pc = "restart" /\ ticks = 0)
    /\ pc = "restart" => (established_calls = 0 /\ ticks = 0)

\* C8: tc_network_start called when wifi.status is not WIFI_STAT_UNINITD
\* returns ESP_ERR_INVALID_STATE and leaves wifi.status, connect_retries,
\* mqtt.state, established_cb and the connect timer as they were.
C8_SecondStartRejected ==
    [][(op' \in {"tc_network_start", "app_main"}
            /\ wifi_status # "WIFI_STAT_UNINITD")
         => /\ start_result' = "ESP_ERR_INVALID_STATE"
            /\ UNCHANGED <<wifi_status, connect_retries, mqtt_state,
                           established_cb, timer_created, timer_armed,
                           timer_delay, radio>>]_vars

\* C8 witness: a start with another callback was rejected while connected.
C8_Witness ==
    /\ op = "tc_network_start"
    /\ start_result = "ESP_ERR_INVALID_STATE"
    /\ wifi_status = "WIFI_STAT_CONNECTED"
    /\ established_cb = "cb"
    /\ timer_created

\* The delays, in seconds, the retry counts 0, 1, 2, 3 are to give.
RetryDelaySeconds == <<0, 2, 4, 6>>

\* C9: whenever the connect timer is armed, its delay is connect_retries * 2
\* seconds (0 s, 2 s, 4 s, 6 s for counts 0..3), and the arming done by the
\* radio-start event uses delay 0.
C9_LinearRetryDelay ==
    [][(timer_armed' /\ ~timer_armed)
         => /\ timer_delay' = connect_retries' * 2 * 1000000
            /\ connect_retries' < Len(RetryDelaySeconds)
                 => timer_delay' = RetryDelaySeconds[connect_retries' + 1] * 1000000
            /\ op' = "WIFI_EVENT_STA_START" => timer_delay' = 0]_vars

\* C9 witness: the timer is armed with 6 s after the third failure.
C9_Witness ==
    /\ timer_armed
    /\ connect_retries = 3
    /\ timer_delay = 6000000
    /\ op = "WIFI_EVENT_STA_DISCONNECTED"

\* C10: connect_retries is never negative; the disconnect handler increases
\* it by exactly 1, the address handler sets it to 0, and no other operation
\* changes it.
C10_RetryCounterDiscipline ==
    /\ connect_retries >= 0
    /\ [][/\ connect_retries' >= 0
          /\ op' = "WIFI_EVENT_STA_DISCONNECTED"
               => connect_retries' = connect_retries + 1
          /\ op' = "IP_EVENT_STA_GOT_IP" => connect_retries' = 0
          /\ op' \notin {"WIFI_EVENT_STA_DISCONNECTED", "IP_EVENT_STA_GOT_IP"}
               => connect_retries' = connect_retries]_vars

\* C10 witness: after a reset by address acquisition, two failures in a row.
C10_Witness ==
    /\ ever_connected
    /\ op = "WIFI_EVENT_STA_DISCONNECTED"
    /\ connect_retries = 2

\* C11: whenever wifi.status is WIFI_STAT_CONNECTING the connect timer is
\* armed or a connect attempt is outstanding; each arming by a handler finds
\* the timer idle, so none is lost; and, the armed timer firing eventually,
\* every disconnect event is followed by another connect attempt, for every
\* number of consecutive failures.
C11_RetryAlwaysPending ==
    /\ [](wifi_status = "WIFI_STAT_CONNECTING"
            => (timer_armed \/ radio = "trying"))
    /\ [][op' \in {"WIFI_EVENT_STA_START", "WIFI_EVENT_STA_DISCONNECTED"}
            => (~timer_armed /\ timer_armed')]_vars
    /\ (op = "WIFI_EVENT_STA_DISCONNECTED" /\ Alive)
           ~> (radio = "trying" \/ ~Alive)

\* C11 witness: a connect attempt is outstanding after three failures in a
\* row.
C11_Witness ==
    /\ wifi_status = "WIFI_STAT_CONNECTING"
    /\ connect_retries = 3
    /\ ~ever_connected
    /\ radio = "trying"
    /\ op = "wifi_connect_timer"

\* C12: a tick in which a sensor read fails makes no publish call, returns
\* the failure to app_main (which logs every result other than ESP_OK),
\* changes no link or session state, and is followed by the delay and the
\* next tick; the loop, once entered, never ends.
C12_SensorFailureSkipsTick ==
    [][/\ op' \in {"gps_fails", "battery_fails"}
            => /\ pc' = "delay"
               /\ loop_result' = "ESP_FAIL"
               /\ pub_calls' = pub_calls
               /\ handed' = handed
               /\ UNCHANGED <<wifi_status, mqtt_state, connect_retries>>
       /\ (pc = "delay" /\ pc' # "delay") => pc' = "loop"
       /\ pc \in {"loop", "publish_check", "publish_send", "delay"}
            => pc' \in {"loop", "publish_check", "publish_send", "delay"}
      ]_vars

\* C12 witness: the tick after a tick whose sensor read failed has sampled
\* and is about to publish.
C12_Witness ==
    /\ ticks = 2
    /\ pc = "publish_check"
    /\ loop_result = "ESP_FAIL"
    /\ pub_calls = 0

\* C13: every publish call carries the sample of the current tick and the
\* call before it carried that of an earlier tick, so a tick makes at most
\* one call and nothing is sent again; publish calls never outnumber ticks.
C13_OnePublishPerTick ==
    /\ [](pub_calls <= ticks /\ handed <= pub_calls)
    /\ [][PublishCheckStep
            => /\ pub_sample < ticks
               /\ pub_sample' = ticks
               /\ pub_calls' = pub_calls + 1]_vars

\* C13 witness: the first tick's publish was rejected and only the second
\* tick's message was handed over.
C13_Witness ==
    /\ variant = "mqtt"
    /\ op = "publish_send"
    /\ ticks = 2
    /\ pub_calls = 2
    /\ handed = 1
    /\ pub_sample = 2

\* C14: in the HTTP build, a publish called while wifi.status is not
\* WIFI_STAT_CONNECTED returns ESP_ERR_INVALID_STATE without going on to the
\* request and without changing wifi.status or connect_retries; the request
\* part is entered only when the test saw WIFI_STAT_CONNECTED.
C14_HttpNotConnectedRejected ==
    [][(PublishCheckStep /\ variant = "http")
         => /\ wifi_status # "WIFI_STAT_CONNECTED"
                 => /\ pub_result' = "ESP_ERR_INVALID_STATE"
                    /\ pc' = "delay"
                    /\ handed' = handed
            /\ pc' = "publish_send" => wifi_status = "WIFI_STAT_CONNECTED"
            /\ UNCHANGED <<wifi_status, connect_retries>>]_vars

\* C14 witness: an HTTP publish was rejected while the link was
\* re-associating.
C14_Witness ==
    /\ variant = "http"
    /\ op = "publish_check"
    /\ pub_result = "ESP_ERR_INVALID_STATE"
    /\ wifi_status = "WIFI_STAT_CONNECTING"
    /\ ever_connected

C16_RoundTripWithinQuantum ==
    (encoded # <<>> /\ lat_q \in -360..360 /\ lon_q \in -720..720
            /\ battery \in 0..100)
        => /\ LatErrorScaled(encoded, lat_q) <= 720
           /\ LonErrorScaled(encoded, lon_q) <= 1440
           /\ encoded[5] = battery

\* C17: the device ID is "ESP32_" followed by the two upper-case hex digits
\* of each of the last three address bytes, in order: 12 characters that
\* depend on no other byte (00:11:22:33:44:55 gives "ESP32_334455").
C17_DeviceStrFromLastThreeBytes ==
    id_result = "ESP_OK"
        => /\ device_str = <<"E", "S", "P", "3", "2", "_">>
                               \o FormatHex(mac[4], 2) \o FormatHex(mac[5], 2)
                               \o FormatHex(mac[6], 2)
           /\ Len(device_str) = 12
           /\ mac = ExampleMac
                => device_str = <<"E", "S", "P", "3", "2", "_",
                                  "3", "3", "4", "4", "5", "5">>

\* C17 witness: an address whose fourth byte is 0A and whose first is FF has
\* been formatted with the leading zero and the upper-case digit.
C17_Witness ==
    /\ id_result = "ESP_OK"
    /\ mac[1] = 255
    /\ mac[4] = 10
    /\ device_str[7] = "0"
    /\ device_str[8] = "A"

\* C18: when the address read fails, tc_get_device_str returns the error and
\* writes no ID, and app_main aborts with the topic unbuilt, the network
\* never started and no tick or publish made.
C18_IdentityFailureAborts ==
    /\ [][(pc = "boot" /\ pc' # "boot" /\ id_result' # "ESP_OK")
            => /\ pc' = "abort"
               /\ device_str' = <<>>
               /\ publish_topic' = <<>>]_vars
    /\ [](id_result \notin {"none", "ESP_OK"}
            => /\ pc = "abort"
               /\ device_str = <<>>
               /\ publish_topic = <<>>
               /\ wifi_status = "WIFI_STAT_UNINITD"
               /\ radio = "off"
               /\ start_result = "none"
               /\ ticks = 0
               /\ pub_calls = 0)

\* C18 witness: the address read has failed.
C18_Witness ==
    /\ id_result = "ESP_FAIL"
    /\ op = "identity"
    /\ pc = "abort"

\* C19: whenever the send half of a publish runs, the transport is ready.
C19_SendOnlyWhenReady ==
    [][(pc = "publish_send" /\ pc' # "publish_send") => PublishReady]_vars

\* The changes of wifi.status there may be, each with the operations that
\* may make it.
LinkEdges ==
    ({<<"WIFI_STAT_UNINITD", "WIFI_STAT_INITD">>}
         \X {"tc_network_start", "app_main"})
    \cup {<<<<"WIFI_STAT_INITD", "WIFI_STAT_CONNECTING">>, "WIFI_EVENT_STA_START">>,
          <<<<"WIFI_STAT_CONNECTING", "WIFI_STAT_CONNECTED">>, "IP_EVENT_STA_GOT_IP">>,
          <<<<"WIFI_STAT_CONNECTED", "WIFI_STAT_CONNECTING">>,
            "WIFI_EVENT_STA_DISCONNECTED">>}

\* C20: wifi.status changes only along Uninitialized -> Initialized (start),
\* Initialized -> Connecting (radio start), Connecting -> Connected (address
\* acquired) and Connected -> Connecting (disconnect), an association failure
\* leaves it Connecting, and once Connecting it is never again Uninitialized
\* or Initialized.
C20_LinkStateEdges ==
    [][/\ wifi_status' # wifi_status
            => <<<<wifi_status, wifi_status'>>, op'>> \in LinkEdges
       /\ op' = "WIFI_EVENT_STA_DISCONNECTED"
            => wifi_status' = "WIFI_STAT_CONNECTING"
       /\ wifi_status \in {"WIFI_STAT_CONNECTING", "WIFI_STAT_CONNECTED"}
            => wifi_status' \in {"WIFI_STAT_CONNECTING", "WIFI_STAT_CONNECTED"}
      ]_vars

\* C20 witness: after a connection, a rejected start and a disconnect, the
\* link is Connecting again.
C20_Witness ==
    /\ op = "WIFI_EVENT_STA_DISCONNECTED"
    /\ wifi_status = "WIFI_STAT_CONNECTING"
    /\ ever_connected
    /\ start_result = "ESP_ERR_INVALID_STATE"
    /\ connect_retries = 1

\* Labels of the steps in which the transport's send fails.
SendFailures == {"mqtt_publish_fails", "set_post_field_fails", "perform_fails"}

\* C21: when an accepted publish's transport send fails, the publish
\* function returns a result other than ESP_OK and the tick ends with no
\* second attempt, in both builds.
C21_SendFailureReported ==
    [][op' \in SendFailures
         => /\ pub_result' # "ESP_OK"
            /\ pc' = "delay"]_vars

\* C22: in the HTTP build no request handle is left open after a publish,
\* whichever call of the request failed.
C22_NoRequestLeftOpen == http_open = 0

\* C23: in the MQTT build the client is started only in the
\* IP_EVENT_STA_GOT_IP handler, which has set wifi.status to
\* WIFI_STAT_CONNECTED, and only from MQTT_STATE_INIT; in any other state the
\* handler's session-open starts nothing and changes no state; mqtt.state
\* never returns to MQTT_STATE_UNINIT.
C23_SessionOpenGated ==
    [][/\ client_started' # client_started
            => /\ op' = "IP_EVENT_STA_GOT_IP"
               /\ variant = "mqtt"
               /\ wifi_status' = "WIFI_STAT_CONNECTED"
               /\ mqtt_state = "MQTT_STATE_INIT"
       /\ (op' = "IP_EVENT_STA_GOT_IP" /\ mqtt_state # "MQTT_STATE_INIT")
            => UNCHANGED <<client_started, mqtt_state>>
       /\ mqtt_state # "MQTT_STATE_UNINIT" => mqtt_state' # "MQTT_STATE_UNINIT"
      ]_vars

\* C23 witness: the address handler has just started the client of an
\* initialised session.
C23_Witness ==
    /\ variant = "mqtt"
    /\ op = "IP_EVENT_STA_GOT_IP"
    /\ wifi_status = "WIFI_STAT_CONNECTED"
    /\ mqtt_state = "MQTT_STATE_INIT"
    /\ client_started
    /\ broker = "down"
    /\ connect_retries = 0

\* The steps of the telemetry task, of the link handlers, of the session
\* handlers and of start, by their labels.
TelemetryOps ==
    {"loop", "gps_fails", "battery_fails", "publish_check", "publish_send",
     "mqtt_publish_fails", "set_post_field_fails", "perform_fails",
     "cleanup_fails", "delay_until"}
LinkHandlerOps ==
    {"WIFI_EVENT_STA_START", "WIFI_EVENT_STA_DISCONNECTED", "IP_EVENT_STA_GOT_IP"}
SessionHandlerOps == {"MQTT_EVENT_CONNECTED", "MQTT_EVENT_DISCONNECTED"}
StartOps == {"tc_network_start", "app_main"}

\* C24 as stated: a publish call and a tick leave wifi.status, mqtt.state and
\* connect_retries unchanged; the three change only in the link and session
\* event handlers, and wifi.status also in start.
C24_ContextFrame ==
    [][/\ op' \in TelemetryOps
            => UNCHANGED <<wifi_status, mqtt_state, connect_retries>>
       /\ wifi_status' # wifi_status => op' \in LinkHandlerOps \cup StartOps
       /\ connect_retries' # connect_retries => op' \in LinkHandlerOps
       /\ mqtt_state' # mqtt_state
            => op' \in LinkHandlerOps \cup SessionHandlerOps
      ]_vars

\* C24 amended: as C24, except that start also writes mqtt.state: it takes
\* it from MQTT_STATE_UNINIT to MQTT_STATE_INIT.
C24_ContextFrameWithStart ==
    [][/\ op' \in TelemetryOps
            => UNCHANGED <<wifi_status, mqtt_state, connect_retries>>
       /\ wifi_status' # wifi_status => op' \in LinkHandlerOps \cup StartOps
       /\ connect_retries' # connect_retries => op' \in LinkHandlerOps
       /\ mqtt_state' # mqtt_state
            => \/ op' \in SessionHandlerOps
               \/ /\ op' \in StartOps
                  /\ mqtt_state = "MQTT_STATE_UNINIT"
                  /\ mqtt_state' = "MQTT_STATE_INIT"
      ]_vars

\* C24 witness: a publish was rejected in the MQTT build on a connected link
\* and the session state is the one it had.
C24_Witness ==
    /\ variant = "mqtt"
    /\ op = "publish_check"
    /\ pub_result = "ESP_ERR_INVALID_STATE"
    /\ wifi_status = "WIFI_STAT_CONNECTED"
    /\ mqtt_state = "MQTT_STATE_INIT"
    /\ client_started

\* C25: the wake time stored by the n-th vTaskDelayUntil is n intervals after
\* the start of the loop, whatever the iterations took and however they
\* ended, and the task wakes at that time.
C25_WakeTimesOnCadence ==
    /\ xLastWakeTime =
           Interval * (IF pc \in {"publish_check", "publish_send", "delay"}
                       THEN ticks - 1 ELSE ticks)
    /\ pc = "loop" => now = xLastWakeTime

\* C25 witness: the second wake, after a tick whose publish was rejected and
\* a tick whose sensor read failed.
C25_Witness ==
    /\ op = "delay_until"
    /\ ticks = 2
    /\ xLastWakeTime = 2 * Interval
    /\ now = xLastWakeTime
    /\ loop_result = "ESP_FAIL"
    /\ pub_result = "ESP_ERR_INVALID_STATE"

\* C26: after every association failure the delay handed to the timer is
\* connect_retries * 2,000,000 microseconds (15625 units of 128 each 2 s) and
\* greater than the delay of the failure before.
C26_DelayNeverWraps ==
    [][op' = "WIFI_EVENT_STA_DISCONNECTED"
         => /\ timer_delay' % 128 = 0
            /\ timer_delay' \div 128 = connect_retries' * 15625
            /\ timer_delay' > timer_delay]_vars

\* C27: a start that returns an error other than ESP_ERR_INVALID_STATE leaves
\* wifi.status at WIFI_STAT_UNINITD, and wifi.status leaves
\* WIFI_STAT_UNINITD only in a start that returns ESP_OK.
C27_FailedStartLeavesUninit ==
    [][/\ (op' \in StartOps
              /\ start_result' \notin {"ESP_OK", "ESP_ERR_INVALID_STATE"})
            => wifi_status' = "WIFI_STAT_UNINITD"
       /\ (wifi_status = "WIFI_STAT_UNINITD" /\ wifi_status' # wifi_status)
            => start_result' = "ESP_OK"
      ]_vars

\* C28: after every handler, wifi.status = WIFI_STAT_CONNECTED implies
\* connect_retries = 0, so the reconnect after a disconnect from Connected is
\* armed with connect_retries = 1 and a delay of 2 s.
C28_ConnectedMeansNoRetries ==
    /\ [](wifi_status = "WIFI_STAT_CONNECTED" => connect_retries = 0)
    /\ [][(op' = "WIFI_EVENT_STA_DISCONNECTED"
              /\ wifi_status = "WIFI_STAT_CONNECTED")
            => /\ connect_retries' = 1
               /\ timer_armed'
               /\ timer_delay' = 2000000]_vars

\* C28 witness: the link was lost while connected and the reconnect is armed
\* at 2 s.
C28_Witness ==
    /\ op = "WIFI_EVENT_STA_DISCONNECTED"
    /\ ever_connected
    /\ wifi_status = "WIFI_STAT_CONNECTING"
    /\ connect_retries = 1
    /\ timer_armed
    /\ timer_delay = 2000000

====
